---- MODULE Spec2Model ----
(***************************************************************************)
(* A model of setup.py of slangpy: the module-level platform and preset    *)
(* resolution, the version extraction from src/sgl/sgl.h, and              *)
(* CMakeBuild.build_extension (environment, wipe of build/pip, the cmake   *)
(* argument list, WSL path mapping, the three cmake phases and the removal *)
(* of unwanted files).                                                     *)
(*                                                                         *)
(* Text that the code takes apart (sys.platform, platform.machine(),       *)
(* CMAKE_ARGS, the header, the output of wslpath) is a sequence of         *)
(* one-character strings.  A formatted string (an f-string) is a record    *)
(* [k, v]: the literal prefix k followed by the characters or path         *)
(* segments v.                                                             *)
(***************************************************************************)
EXTENDS Integers, Sequences, FiniteSets, TLC

\* ------------------------------------------------------------------ bounds

\* Longest CMAKE_ARGS string drawn, in characters.
MaxArgsLen == 3
\* Most lines of a header text drawn.
MaxLines == 4

\* ------------------------------------------------------------------ text

\* All sequences over S of length at most n.
RECURSIVE SeqsUpTo(_, _)
SeqsUpTo(S, n) ==
    IF n = 0 THEN {<<>>}
    ELSE LET R == SeqsUpTo(S, n - 1)
         IN  R \cup {Append(r, x) : r \in {q \in R : Len(q) = n - 1}, x \in S}

\* str.startswith
StartsWith(s, p) ==
    /\ Len(s) >= Len(p)
    /\ SubSeq(s, 1, Len(p)) = p

LowerChar(c) ==
    CASE c = "A" -> "a"
      [] c = "R" -> "r"
      [] c = "M" -> "m"
      [] c = "C" -> "c"
      [] c = "H" -> "h"
      [] c = "D" -> "d"
      [] OTHER -> c


\* Lower without the conversion: line 38 without .lower().
LowerNothing(s) == s

\* str.lower
Lower(s) == [i \in 1..Len(s) |-> LowerChar(s[i])]

\* The values of sys.platform drawn: the four supported families, one of
\* them under the name of one of its versions, and two unsupported ones.
SysPlatforms ==
    { <<"w","i","n","3","2">>,
      <<"l","i","n","u","x">>,
      <<"d","a","r","w","i","n">>,
      <<"a","n","d","r","o","i","d">>,
      <<"c","y","g","w","i","n">>,
      <<"f","r","e","e","b","s","d">> }

\* The values of platform.machine() drawn.
Machines ==
    { <<"A","R","M","6","4">>,
      <<"a","r","m","6","4">>,
      <<"A","A","r","c","h","6","4">>,
      <<"A","M","D","6","4">> }

\* An environment variable is <<>> when unset and <<value>> when set.
Unset == <<>>
IsSet(e) == e # <<>>

AbiValues == {Unset, <<"arm64-v8a">>, <<"x86_64">>, <<"armeabi-v7a">>}
ToolchainValues == {Unset, <<"">>, <<"ndk/android.toolchain.cmake">>}
FlagValues == {Unset, <<"1">>}
ReleaseValues == {Unset, <<"1">>, <<"0">>}
ArgChars == {" ", "a", "b"}
CmakeArgsValues == {Unset} \cup {<<s>> : s \in SeqsUpTo(ArgChars, MaxArgsLen)}

EnvValues(name) ==
    CASE name = "ANDROID_ABI" -> AbiValues
      [] name = "CMAKE_TOOLCHAIN_FILE" -> ToolchainValues
      [] name = "NO_CMAKE_BUILD" -> FlagValues
      [] name = "BUILD_RELEASE_WHEEL" -> ReleaseValues
      [] name = "CMAKE_ARGS" -> CmakeArgsValues

\* ------------------------------------------------------------------ state

VARIABLES
    pc,                 \* the position in setup.py
    error,              \* the exception that ended the run, "" when none
    sys_platform,       \* sys.platform
    environ,            \* os.environ, the variables read so far
    host,               \* what the host answered so far (marker, tools, globs)
    PLATFORM,
    python_arch,
    CMAKE_PRESET,
    MSVC_PLAT_SPEC,
    NO_CMAKE_BUILD,
    BUILD_RELEASE_WHEEL,
    header,             \* the text of src/sgl/sgl.h
    version,
    env,                \* the environment handed to the cmake subprocesses
    build_dir,          \* build/pip: [exists, files]
    extdir,             \* the files of the install directory
    fs0,                \* build_dir and extdir before the run
    cmake_args,
    log,                \* the subprocesses started and the deletions made
    prev_args           \* the cmake_args of the previous run of the script

vars ==
    << pc, error, sys_platform, environ, host, PLATFORM, python_arch,
       CMAKE_PRESET, MSVC_PLAT_SPEC, NO_CMAKE_BUILD, BUILD_RELEASE_WHEEL,
       header, version, env, build_dir, extdir, fs0, cmake_args, log, prev_args >>

None == "None"

\* os.environ.get(name) may answer v: the variable was read as v before, or
\* is read now for the first time.
EnvCanBe(name, v) ==
    /\ v \in EnvValues(name)
    /\ name \in DOMAIN environ => environ[name] = v

EnvWith(name, v) ==
    IF name \in DOMAIN environ THEN environ ELSE environ @@ (name :> v)

HostCanBe(name, v) == name \in DOMAIN host => host[name] = v

HostWith(name, v) ==
    IF name \in DOMAIN host THEN host ELSE host @@ (name :> v)

\* ------------------------------------------------------------------ module level: platform

\* Lines 25-34.
DetectPlatform ==
    /\ pc = "start"
    /\ IF StartsWith(sys_platform, <<"w","i","n">>)
         THEN PLATFORM' = "windows" /\ pc' = "preset" /\ error' = error
       ELSE IF StartsWith(sys_platform, <<"l","i","n","u","x">>)
         THEN PLATFORM' = "linux" /\ pc' = "preset" /\ error' = error
       ELSE IF StartsWith(sys_platform, <<"d","a","r","w","i","n">>)
         THEN PLATFORM' = "macos" /\ pc' = "preset" /\ error' = error
       ELSE IF StartsWith(sys_platform, <<"a","n","d","r","o","i","d">>)
         THEN PLATFORM' = "android" /\ pc' = "preset" /\ error' = error
       ELSE PLATFORM' = PLATFORM /\ pc' = "failed"
            /\ error' = "Unsupported platform"
    /\ UNCHANGED << sys_platform, environ, host, python_arch, CMAKE_PRESET,
                    MSVC_PLAT_SPEC, NO_CMAKE_BUILD, BUILD_RELEASE_WHEEL,
                    header, version, env, build_dir, extdir, fs0, cmake_args,
                    log, prev_args >>

is_arm64(arch) == arch \in { <<"a","r","m","6","4">>, <<"a","a","r","c","h","6","4">> }

\* Lines 37-45.
SelectPresetWindows ==
    /\ pc = "preset"
    /\ PLATFORM = "windows"
    /\ \E machine \in Machines :
         /\ HostCanBe("machine", machine)
         /\ host' = HostWith("machine", machine)
         /\ python_arch' = Lower(machine)
         /\ IF is_arm64(Lower(machine))
              THEN CMAKE_PRESET' = "windows-arm64-msvc" /\ MSVC_PLAT_SPEC' = "x86_arm64"
              ELSE CMAKE_PRESET' = "windows-msvc" /\ MSVC_PLAT_SPEC' = "x64"
    /\ pc' = "flags"
    /\ UNCHANGED << error, sys_platform, environ, PLATFORM,
                    NO_CMAKE_BUILD, BUILD_RELEASE_WHEEL, header, version, env,
                    build_dir, extdir, fs0, cmake_args, log,
                    prev_args >>

\* Lines 46-51.
SelectPresetUnix ==
    /\ pc = "preset"
    /\ PLATFORM \in {"linux", "macos"}
    /\ CMAKE_PRESET' = (IF PLATFORM = "linux" THEN "linux-gcc" ELSE "macos-arm64-clang")
    /\ MSVC_PLAT_SPEC' = None
    /\ pc' = "flags"
    /\ UNCHANGED << error, sys_platform, environ, host, PLATFORM, python_arch,
                    NO_CMAKE_BUILD, BUILD_RELEASE_WHEEL, header, version, env,
                    build_dir, extdir, fs0, cmake_args, log,
                    prev_args >>

\* Lines 52-63.
SelectPresetAndroid ==
    /\ pc = "preset"
    /\ PLATFORM = "android"
    /\ \E android_abi \in AbiValues :
         /\ EnvCanBe("ANDROID_ABI", android_abi)
         /\ environ' = EnvWith("ANDROID_ABI", android_abi)
         /\ IF android_abi = <<"arm64-v8a">>
              THEN /\ CMAKE_PRESET' = "android-arm64"
                   /\ MSVC_PLAT_SPEC' = None
                   /\ pc' = "flags" /\ error' = error
            ELSE IF android_abi = <<"x86_64">>
              THEN /\ CMAKE_PRESET' = "android-x86_64"
                   /\ MSVC_PLAT_SPEC' = None
                   /\ pc' = "flags" /\ error' = error
            ELSE /\ UNCHANGED << CMAKE_PRESET, MSVC_PLAT_SPEC >>
                 /\ pc' = "failed"
                 /\ error' = "Unsupported ANDROID_ABI"
    /\ UNCHANGED << sys_platform, host, PLATFORM, python_arch, NO_CMAKE_BUILD,
                    BUILD_RELEASE_WHEEL, header, version, env, build_dir,
                    extdir, fs0, cmake_args, log, prev_args >>

\* Lines 67-73.
CMAKE_CONFIG == "RelWithDebInfo"

ReadFlags ==
    /\ pc = "flags"
    /\ \E no_cmake \in FlagValues, release \in ReleaseValues :
         /\ EnvCanBe("NO_CMAKE_BUILD", no_cmake)
         /\ EnvCanBe("BUILD_RELEASE_WHEEL", release)
         /\ environ' = [n \in DOMAIN environ \cup {"NO_CMAKE_BUILD", "BUILD_RELEASE_WHEEL"} |->
                          IF n \in DOMAIN environ THEN environ[n]
                          ELSE IF n = "NO_CMAKE_BUILD" THEN no_cmake ELSE release]
         /\ NO_CMAKE_BUILD' = (no_cmake = <<"1">>)
         /\ BUILD_RELEASE_WHEEL' = (release = <<"1">>)
    /\ pc' = "version"
    /\ UNCHANGED << error, sys_platform, host, PLATFORM, python_arch,
                    CMAKE_PRESET, MSVC_PLAT_SPEC, header, version, env,
                    build_dir, extdir, fs0, cmake_args, log,
                    prev_args >>

\* ------------------------------------------------------------------ module level: version

(* The header is a sequence of tokens: "\n", " ", a token of ordinary text  *)
(* ("1", "2", "3", "x"), or the name N of a token `#define SGL_VERSION_N`   *)
(* ("MAJOR", "MINOR", "PATCH", "GUARD").                                    *)
DefineNames == {"MAJOR", "MINOR", "PATCH", "GUARD"}
IsSpace(t) == t \in {" ", "\n"}

\* The first position from p on that holds no whitespace (Len + 1 if none):
\* where a greedy \s* or \s+ started at p ends.
RECURSIVE SkipSpace(_, _)
SkipSpace(text, p) ==
    IF p <= Len(text) /\ IsSpace(text[p]) THEN SkipSpace(text, p + 1) ELSE p

\* The first position from p on that holds a newline (Len + 1 if none):
\* where a greedy .* started at p ends, and where $ matches.
RECURSIVE LineEnd(_, _)
LineEnd(text, p) ==
    IF p <= Len(text) /\ text[p] # "\n" THEN LineEnd(text, p + 1) ELSE p

NoMatch == [found |-> FALSE, name |-> "", value |-> <<>>, end |-> 0]

\* Line 201: VERSION_REGEX matched at position p:
\*   ^  \s*  #\s*define\s+SGL_VERSION_([A-Z]+)  \s+  (.*)  $    (re.MULTILINE)
MatchAt(text, p) ==
    IF ~(p = 1 \/ text[p - 1] = "\n") THEN NoMatch
    ELSE LET d == SkipSpace(text, p)
         IN  IF ~(d <= Len(text) /\ text[d] \in DefineNames) THEN NoMatch
             ELSE LET v == SkipSpace(text, d + 1)
                      e == LineEnd(text, v)
                  IN  IF v = d + 1 THEN NoMatch
                      ELSE [found |-> TRUE, name |-> text[d],
                            value |-> SubSeq(text, v, e - 1), end |-> e]

\* Line 204: VERSION_REGEX.findall, the (name, value) pairs of the
\* non-overlapping matches from left to right.
RECURSIVE FindAll(_, _)
FindAll(text, p) ==
    IF p > Len(text) THEN <<>>
    ELSE LET m == MatchAt(text, p)
         IN  IF m.found
               THEN <<[name |-> m.name, value |-> m.value]>> \o FindAll(text, m.end)
               ELSE FindAll(text, p + 1)

\* Line 204: dict(pairs), a later pair replaces an earlier one of the same name.
RECURSIVE Dict(_)
Dict(pairs) ==
    IF pairs = <<>> THEN [n \in {} |-> <<>>]
    ELSE LET last == pairs[Len(pairs)]
         IN  (last.name :> last.value) @@ Dict(SubSeq(pairs, 1, Len(pairs) - 1))

\* Line 205: "{MAJOR}.{MINOR}.{PATCH}".format(**matches)
FormatVersion(matches) ==
    matches["MAJOR"] \o <<".">> \o matches["MINOR"] \o <<".">> \o matches["PATCH"]

\* The lines a header text is drawn from.
HeaderLines ==
    { <<"MAJOR", " ", "1">>,
      <<"MINOR", " ", "2">>,
      <<" ", "PATCH", " ", "3">>,
      <<"x">>,
      <<"GUARD">>,
      <<>> }

RECURSIVE JoinLines(_)
JoinLines(ls) ==
    IF ls = <<>> THEN <<>> ELSE ls[1] \o <<"\n">> \o JoinLines(Tail(ls))

Headers == {JoinLines(ls) : ls \in SeqsUpTo(HeaderLines, MaxLines)}

\* Lines 203-206.
ExtractVersion ==
    /\ pc = "version"
    /\ LET matches == Dict(FindAll(header, 1))
       IN  IF {"MAJOR", "MINOR", "PATCH"} \subseteq DOMAIN matches
             THEN /\ version' = FormatVersion(matches)
                  /\ pc' = "setup"
                  /\ error' = error
             ELSE /\ version' = version
                  /\ pc' = "failed"
                  /\ error' = "KeyError"
    /\ UNCHANGED << sys_platform, environ, host, PLATFORM, python_arch,
                    CMAKE_PRESET, MSVC_PLAT_SPEC, NO_CMAKE_BUILD,
                    BUILD_RELEASE_WHEEL, header, env, build_dir, extdir, fs0,
                    cmake_args, log, prev_args >>

\* Lines 211-216: setup() runs build_ext for the one extension, unless
\* NO_CMAKE_BUILD leaves ext_modules empty.
CallSetup ==
    /\ pc = "setup"
    /\ pc' = (IF NO_CMAKE_BUILD THEN "done" ELSE "prepare")
    /\ UNCHANGED << error, sys_platform, environ, host, PLATFORM, python_arch,
                    CMAKE_PRESET, MSVC_PLAT_SPEC, NO_CMAKE_BUILD,
                    BUILD_RELEASE_WHEEL, header, version, env, build_dir,
                    extdir, fs0, cmake_args, log, prev_args >>

\* ------------------------------------------------------------------ build_extension

Arg(k, v) == [k |-> k, v |-> v]

SOURCE_DIR == <<"s">>
BuildDirPath == <<"s", "/build/pip">>
ExtDirPath == <<"extdir">>
SysPrefix == <<"sys.prefix">>

Entry(op, rc, existed, files) ==
    [op |-> op, rc |-> rc, existed |-> existed, files |-> files]

\* list.insert(i, x) for 0 <= i <= len(s): x becomes the element of index i
\* (counted from 0).
Insert(s, i, x) == SubSeq(s, 1, i) \o <<x>> \o SubSeq(s, i + 1, Len(s))


\* PrepareAndWipe without lines 102-103: build/pip is left as it is.
PrepareNoWipe ==
    /\ pc = "prepare"
    /\ env' = (IF PLATFORM = "windows" THEN <<"msvc", MSVC_PLAT_SPEC>>
                                       ELSE <<"os.environ">>)
    /\ pc' = "args"
    /\ UNCHANGED << error, sys_platform, environ, host, PLATFORM, python_arch,
                    CMAKE_PRESET, MSVC_PLAT_SPEC, NO_CMAKE_BUILD,
                    BUILD_RELEASE_WHEEL, header, version, build_dir, extdir,
                    fs0, cmake_args, log, prev_args >>

\* Lines 88-103: the subprocess environment, and the wipe of build/pip.
\* os.name is "nt" exactly on the platforms whose sys.platform starts
\* with "win".
PrepareAndWipe ==
    /\ pc = "prepare"
    /\ env' = (IF PLATFORM = "windows" THEN <<"msvc", MSVC_PLAT_SPEC>>
                                       ELSE <<"os.environ">>)
    /\ IF build_dir.exists
         THEN /\ build_dir' = [exists |-> FALSE, files |-> {}]
              /\ log' = Append(log, Entry("rmtree", 0, TRUE, extdir))
         ELSE UNCHANGED << build_dir, log >>
    /\ pc' = "args"
    /\ UNCHANGED << error, sys_platform, environ, host, PLATFORM, python_arch,
                    CMAKE_PRESET, MSVC_PLAT_SPEC, NO_CMAKE_BUILD,
                    BUILD_RELEASE_WHEEL, header, version, extdir, fs0,
                    cmake_args, prev_args >>

\* Lines 105-119.
BaseArgs ==
    << Arg("--preset", <<>>),
       Arg("", <<CMAKE_PRESET>>),
       Arg("-B", <<>>),
       Arg("", BuildDirPath),
       Arg("-DCMAKE_DEFAULT_BUILD_TYPE=", <<CMAKE_CONFIG>>),
       Arg("-DPython_FIND_REGISTRY:STRING=NEVER", <<>>),
       Arg("-DCMAKE_INSTALL_PREFIX=", ExtDirPath),
       Arg("-DCMAKE_INSTALL_LIBDIR=.", <<>>),
       Arg("-DCMAKE_INSTALL_BINDIR=.", <<>>),
       Arg("-DCMAKE_INSTALL_INCLUDEDIR=include", <<>>),
       Arg("-DCMAKE_INSTALL_DATAROOTDIR=.", <<>>),
       Arg("-DSGL_BUILD_EXAMPLES=OFF", <<>>),
       Arg("-DSGL_BUILD_TESTS=OFF", <<>>) >>


\* WithPythonRoot with the index off by one.
WithPythonRootAt4(args) == Insert(args, 4, Arg("-DPython_ROOT_DIR:PATH=", SysPrefix))

\* Line 135.
WithPythonRoot(args) == Insert(args, 5, Arg("-DPython_ROOT_DIR:PATH=", SysPrefix))

\* Lines 137-145.
AndroidSlangArgs(android_abi) ==
    << Arg("-DSGL_LOCAL_SLANG=ON", <<>>),
       Arg("-DSGL_LOCAL_SLANG_DIR=", <<"slang">>),
       Arg("-DSGL_LOCAL_SLANG_BUILD_DIR=build-android-",
           android_abi \o <<"/", CMAKE_CONFIG>>) >>

\* What the two directories under the toolchain's python prefix may hold.
IncludeNames == {"python3.11", "python3.12"}
LibNames == {"libpython3.11.so", "libpython3.12.so"}

\* Lines 105-135 and 137-145 on every platform but android.
ComposeArgs ==
    /\ pc = "args"
    /\ PLATFORM # "android"
    /\ cmake_args' = WithPythonRoot(BaseArgs)
    /\ pc' = "pathmap"
    /\ UNCHANGED << error, sys_platform, environ, host, PLATFORM, python_arch,
                    CMAKE_PRESET, MSVC_PLAT_SPEC, NO_CMAKE_BUILD,
                    BUILD_RELEASE_WHEEL, header, version, env, build_dir,
                    extdir, fs0, log, prev_args >>

\* Lines 105-133 and 137-145 on android.  Path.glob yields the matches in
\* the order of the directory listing, which nothing fixes: the element of
\* index 0 is any one of the matches.
ComposeArgsAndroid ==
    /\ pc = "args"
    /\ PLATFORM = "android"
    /\ \E toolchain_file \in ToolchainValues :
         /\ EnvCanBe("CMAKE_TOOLCHAIN_FILE", toolchain_file)
         /\ environ' = EnvWith("CMAKE_TOOLCHAIN_FILE", toolchain_file)
         /\ IF toolchain_file \in {Unset, <<"">>}
              THEN /\ pc' = "failed"
                   /\ error' = "AssertionError"
                   /\ cmake_args' = BaseArgs
                   /\ host' = host
              ELSE \E include_dirs \in SUBSET IncludeNames, libs \in SUBSET LibNames :
                     /\ HostCanBe("include", include_dirs)
                     /\ IF include_dirs = {}
                          THEN /\ pc' = "failed"
                               /\ error' = "IndexError"
                               /\ cmake_args' = BaseArgs
                               /\ host' = HostWith("include", include_dirs)
                          ELSE \E inc \in include_dirs :
                                 /\ HostCanBe("lib", libs)
                                 /\ host' = [n \in DOMAIN host \cup {"include", "lib"} |->
                                               IF n \in DOMAIN host THEN host[n]
                                               ELSE IF n = "include" THEN include_dirs
                                               ELSE libs]
                                 /\ IF libs = {}
                                      THEN /\ pc' = "failed"
                                           /\ error' = "IndexError"
                                           /\ cmake_args' =
                                                Append(BaseArgs,
                                                       Arg("-DPython_INCLUDE_DIR=", <<"prefix/include/", inc>>))
                                      ELSE \E lib \in libs :
                                             /\ pc' = "pathmap"
                                             /\ error' = error
                                             /\ cmake_args' =
                                                  BaseArgs
                                                  \o << Arg("-DPython_INCLUDE_DIR=", <<"prefix/include/", inc>>),
                                                        Arg("-DPython_LIBRARY=", <<"prefix/lib/", lib>>) >>
                                                  \o AndroidSlangArgs(environ["ANDROID_ABI"])
    /\ UNCHANGED << sys_platform, PLATFORM, python_arch, CMAKE_PRESET,
                    MSVC_PLAT_SPEC, NO_CMAKE_BUILD, BUILD_RELEASE_WHEEL,
                    header, version, env, build_dir, extdir, fs0, log, prev_args >>

\* bytes.decode("utf-8") raises on a byte that is no UTF-8; "#" stands for one.
Decodable(bytes) == \A i \in 1..Len(bytes) : bytes[i] # "#"

\* str.strip
RECURSIVE Strip(_)
Strip(t) ==
    IF t # <<>> /\ IsSpace(t[1]) THEN Strip(Tail(t))
    ELSE IF t # <<>> /\ IsSpace(t[Len(t)]) THEN Strip(SubSeq(t, 1, Len(t) - 1))
    ELSE t

\* How a run of `wslpath -m <SOURCE_DIR>` may end: it cannot be executed
\* (rc -1), it exits with 1, or it exits with 0 and has written out.
WslpathResults ==
    { [rc |-> -1, out |-> <<>>], [rc |-> 1, out |-> <<>>] }
    \cup { [rc |-> 0, out |-> o] :
             o \in { <<"s", "\n">>, <<"w", "\n">>, <<"\n">>, <<"#", "\n">> } }

\* Lines 155-156.
PrefixMapArgs(wsl_src, win_src) ==
    << Arg("-DCMAKE_C_FLAGS=-fdebug-prefix-map=", wsl_src \o <<"=">> \o win_src),
       Arg("-DCMAKE_CXX_FLAGS=-fdebug-prefix-map=", wsl_src \o <<"=">> \o win_src) >>

\* Lines 147-148 when /proc/sys/fs/binfmt_misc/WSLInterop does not exist.
PathMappingNoWsl ==
    /\ pc = "pathmap"
    /\ HostCanBe("marker", FALSE)
    /\ host' = HostWith("marker", FALSE)
    /\ pc' = "extra"
    /\ UNCHANGED << error, sys_platform, environ, PLATFORM, python_arch,
                    CMAKE_PRESET, MSVC_PLAT_SPEC, NO_CMAKE_BUILD,
                    BUILD_RELEASE_WHEEL, header, version, env, build_dir,
                    extdir, fs0, cmake_args, log, prev_args >>

\* Lines 147-159 when the marker exists and shutil.which finds no wslpath:
\* win_src is wsl_src.  Only a Linux kernel (that of WSL) shows the marker.
PathMappingNoTool ==
    /\ pc = "pathmap"
    /\ PLATFORM = "linux"
    /\ HostCanBe("marker", TRUE)
    /\ HostCanBe("which", FALSE)
    /\ host' = [n \in DOMAIN host \cup {"marker", "which"} |->
                  IF n \in DOMAIN host THEN host[n] ELSE n = "marker"]
    /\ pc' = "extra"
    /\ UNCHANGED << error, sys_platform, environ, PLATFORM, python_arch,
                    CMAKE_PRESET, MSVC_PLAT_SPEC, NO_CMAKE_BUILD,
                    BUILD_RELEASE_WHEEL, header, version, env, build_dir,
                    extdir, fs0, cmake_args, log, prev_args >>


\* PathMappingQuery with subprocess.run in place of check_output: the exit
\* code of wslpath is not looked at.
PathMappingQueryAnyExit ==
    /\ pc = "pathmap"
    /\ PLATFORM = "linux"
    /\ HostCanBe("marker", TRUE)
    /\ HostCanBe("which", TRUE)
    /\ \E r \in WslpathResults :
         /\ HostCanBe("wslpath", r)
         /\ host' = [n \in DOMAIN host \cup {"marker", "which", "wslpath"} |->
                       IF n \in DOMAIN host THEN host[n]
                       ELSE IF n = "wslpath" THEN r ELSE TRUE]
         /\ log' = Append(log, Entry("wslpath", r.rc, build_dir.exists, extdir))
         /\ IF Decodable(r.out) /\ Strip(r.out) # SOURCE_DIR
              THEN cmake_args' = cmake_args \o PrefixMapArgs(SOURCE_DIR, Strip(r.out))
              ELSE cmake_args' = cmake_args
    /\ pc' = "extra"
    /\ UNCHANGED << error, sys_platform, environ, PLATFORM, python_arch,
                    CMAKE_PRESET, MSVC_PLAT_SPEC, NO_CMAKE_BUILD,
                    BUILD_RELEASE_WHEEL, header, version, env, build_dir,
                    extdir, fs0, prev_args >>

\* Lines 147-159 when the marker exists and wslpath is found: check_output
\* raises unless the exit code is 0, decode raises on bad bytes, and
\* `except Exception` swallows both.
PathMappingQuery ==
    /\ pc = "pathmap"
    /\ PLATFORM = "linux"
    /\ HostCanBe("marker", TRUE)
    /\ HostCanBe("which", TRUE)
    /\ \E r \in WslpathResults :
         /\ HostCanBe("wslpath", r)
         /\ host' = [n \in DOMAIN host \cup {"marker", "which", "wslpath"} |->
                       IF n \in DOMAIN host THEN host[n]
                       ELSE IF n = "wslpath" THEN r ELSE TRUE]
         /\ log' = Append(log, Entry("wslpath", r.rc, build_dir.exists, extdir))
         /\ IF r.rc = 0 /\ Decodable(r.out) /\ Strip(r.out) # SOURCE_DIR
              THEN cmake_args' = cmake_args \o PrefixMapArgs(SOURCE_DIR, Strip(r.out))
              ELSE cmake_args' = cmake_args
    /\ pc' = "extra"
    /\ UNCHANGED << error, sys_platform, environ, PLATFORM, python_arch,
                    CMAKE_PRESET, MSVC_PLAT_SPEC, NO_CMAKE_BUILD,
                    BUILD_RELEASE_WHEEL, header, version, env, build_dir,
                    extdir, fs0, prev_args >>

\* Lines 161-165.
ReleaseArgs ==
    << Arg("-DSGL_PROJECT_DIR=", <<>>), Arg("-DSGL_SLANG_DEBUG_INFO=OFF", <<>>) >>

\* str.split(" "): the pieces between the spaces, the empty ones included.
RECURSIVE Split(_)
Split(str) ==
    IF \A i \in 1..Len(str) : str[i] # " " THEN <<str>>
    ELSE LET i == CHOOSE j \in 1..Len(str) :
                    str[j] = " " /\ \A k \in 1..(j - 1) : str[k] # " "
         IN  <<SubSeq(str, 1, i - 1)>> \o Split(SubSeq(str, i + 1, Len(str)))

NonEmpty(item) == item # <<>>


\* UserArgs without the `if item` of line 169.
UserArgsKeepEmpty(str) == [i \in 1..Len(Split(str)) |-> Arg("", Split(str)[i])]

\* Line 169.
UserArgs(str) ==
    LET items == SelectSeq(Split(str), NonEmpty)
    IN  [i \in 1..Len(items) |-> Arg("", items[i])]

\* Lines 161-169.
AppendOptional ==
    /\ pc = "extra"
    /\ \E user \in CmakeArgsValues :
         /\ EnvCanBe("CMAKE_ARGS", user)
         /\ environ' = EnvWith("CMAKE_ARGS", user)
         /\ LET builtin == IF BUILD_RELEASE_WHEEL THEN cmake_args \o ReleaseArgs
                                                  ELSE cmake_args
            IN  cmake_args' = IF IsSet(user) THEN builtin \o UserArgs(user[1])
                                            ELSE builtin
    /\ pc' = "configure"
    /\ UNCHANGED << error, sys_platform, host, PLATFORM, python_arch,
                    CMAKE_PRESET, MSVC_PLAT_SPEC, NO_CMAKE_BUILD,
                    BUILD_RELEASE_WHEEL, header, version, env, build_dir,
                    extdir, fs0, log, prev_args >>

\* ------------------------------------------------------------------ the three phases


\* AfterPhase without check=True: the exit code is not looked at.
AfterPhaseUnchecked(rc, next) == next

\* What a phase has run: the next phase when it exited with 0, the end of
\* the run (CalledProcessError, check=True) otherwise.
AfterPhase(rc, next) == IF rc = 0 THEN next ELSE "failed"

PhaseError(rc) == IF rc = 0 THEN error ELSE "CalledProcessError"

\* Line 172: cmake <cmake_args>.  cmake creates the directory given by -B.
Configure ==
    /\ pc = "configure"
    /\ \E rc \in {0, 1} :
         /\ log' = Append(log, Entry("configure", rc, build_dir.exists, extdir))
         /\ build_dir' = [exists |-> TRUE,
                          files |-> build_dir.files \cup {"CMakeCache.txt"}]
         /\ pc' = AfterPhase(rc, "build")
         /\ error' = PhaseError(rc)
    /\ UNCHANGED << sys_platform, environ, host, PLATFORM, python_arch,
                    CMAKE_PRESET, MSVC_PLAT_SPEC, NO_CMAKE_BUILD,
                    BUILD_RELEASE_WHEEL, header, version, env, extdir, fs0,
                    cmake_args, prev_args >>

\* Lines 173-175: cmake --build.
Build ==
    /\ pc = "build"
    /\ \E rc \in {0, 1} :
         /\ log' = Append(log, Entry("build", rc, build_dir.exists, extdir))
         /\ build_dir' = [build_dir EXCEPT !.files = @ \cup {"slangpy_ext.o"}]
         /\ pc' = AfterPhase(rc, "install")
         /\ error' = PhaseError(rc)
    /\ UNCHANGED << sys_platform, environ, host, PLATFORM, python_arch,
                    CMAKE_PRESET, MSVC_PLAT_SPEC, NO_CMAKE_BUILD,
                    BUILD_RELEASE_WHEEL, header, version, env, extdir, fs0,
                    cmake_args, prev_args >>

\* Line 181.
Denylist == {"slang-rhi.lib"}

\* What the install phase may write into the install directory.
InstallOutputs == {"slangpy_ext.so", "slang-rhi.lib"}

\* Lines 176-178: cmake --install; files holds the install directory as the
\* phase left it.
Install ==
    /\ pc = "install"
    /\ \E rc \in {0, 1}, written \in SUBSET InstallOutputs :
         /\ rc = 0 => "slangpy_ext.so" \in written
         /\ extdir' = extdir \cup written
         /\ log' = Append(log, Entry("install", rc, build_dir.exists, extdir \cup written))
         /\ pc' = AfterPhase(rc, "post")
         /\ error' = PhaseError(rc)
    /\ UNCHANGED << sys_platform, environ, host, PLATFORM, python_arch,
                    CMAKE_PRESET, MSVC_PLAT_SPEC, NO_CMAKE_BUILD,
                    BUILD_RELEASE_WHEEL, header, version, env, build_dir, fs0,
                    cmake_args, prev_args >>


\* RemoveUnneeded with os.remove left out.
RemoveNothing ==
    /\ pc = "post"
    /\ pc' = "done"
    /\ UNCHANGED << error, sys_platform, environ, host, PLATFORM, python_arch,
                    CMAKE_PRESET, MSVC_PLAT_SPEC, NO_CMAKE_BUILD,
                    BUILD_RELEASE_WHEEL, header, version, env, build_dir,
                    extdir, fs0, cmake_args, log, prev_args >>

\* Lines 180-184.
RemoveUnneeded ==
    /\ pc = "post"
    /\ extdir' = extdir \ Denylist
    /\ log' = IF extdir \cap Denylist # {}
                THEN Append(log, Entry("remove", 0, build_dir.exists, extdir \ Denylist))
                ELSE log
    /\ pc' = "done"
    /\ UNCHANGED << error, sys_platform, environ, host, PLATFORM, python_arch,
                    CMAKE_PRESET, MSVC_PLAT_SPEC, NO_CMAKE_BUILD,
                    BUILD_RELEASE_WHEEL, header, version, env, build_dir, fs0,
                    cmake_args, prev_args >>

\* ------------------------------------------------------------------ specifications

\* A header with the three directives, one without SGL_VERSION_PATCH.
MainHeaders ==
    { JoinLines(<< <<"MAJOR", " ", "1">>, <<"MINOR", " ", "2">>, <<" ", "PATCH", " ", "3">> >>),
      JoinLines(<< <<"MAJOR", " ", "1">>, <<"x">>, <<"MINOR", " ", "2">> >>) }

BuildDirs ==
    { [exists |-> FALSE, files |-> {}],
      [exists |-> TRUE, files |-> {"stale.txt"}] }

ExtDirs == { {"old.txt"}, {"old.txt", "slang-rhi.lib"} }

InitGlobals ==
    /\ error = ""
    /\ environ = [n \in {} |-> Unset]
    /\ host = [n \in {} |-> FALSE]
    /\ PLATFORM = None
    /\ python_arch = <<>>
    /\ CMAKE_PRESET = None
    /\ MSVC_PLAT_SPEC = None
    /\ NO_CMAKE_BUILD = FALSE
    /\ BUILD_RELEASE_WHEEL = FALSE
    /\ version = <<>>
    /\ env = <<>>
    /\ cmake_args = <<>>
    /\ log = <<>>
    /\ prev_args = <<>>

\* setup.py is started: any platform, either header, any state of the two
\* directories.
Init ==
    /\ pc = "start"
    /\ sys_platform \in SysPlatforms
    /\ header \in MainHeaders
    /\ build_dir \in BuildDirs
    /\ extdir \in ExtDirs
    /\ fs0 = [build_dir |-> build_dir, extdir |-> extdir]
    /\ InitGlobals

Next ==
    \/ DetectPlatform
    \/ SelectPresetWindows
    \/ SelectPresetUnix
    \/ SelectPresetAndroid
    \/ ReadFlags
    \/ ExtractVersion
    \/ CallSetup
    \/ PrepareAndWipe
    \/ ComposeArgs
    \/ ComposeArgsAndroid
    \/ PathMappingNoWsl
    \/ PathMappingNoTool
    \/ PathMappingQuery
    \/ AppendOptional
    \/ Configure
    \/ Build
    \/ Install
    \/ RemoveUnneeded

Spec == Init /\ [][Next]_vars

\* The state after lines 25-73 on linux, for any header.
InitVersion ==
    /\ pc = "version"
    /\ sys_platform = <<"l","i","n","u","x">>
    /\ header \in Headers
    /\ build_dir \in BuildDirs
    /\ extdir = {"old.txt"}
    /\ fs0 = [build_dir |-> build_dir, extdir |-> extdir]
    /\ error = ""
    /\ \E no_cmake \in FlagValues :
         /\ environ = [n \in {"NO_CMAKE_BUILD", "BUILD_RELEASE_WHEEL"} |->
                         IF n = "NO_CMAKE_BUILD" THEN no_cmake ELSE Unset]
         /\ NO_CMAKE_BUILD = (no_cmake = <<"1">>)
    /\ host = [n \in {} |-> FALSE]
    /\ PLATFORM = "linux"
    /\ python_arch = <<>>
    /\ CMAKE_PRESET = "linux-gcc"
    /\ MSVC_PLAT_SPEC = None
    /\ BUILD_RELEASE_WHEEL = FALSE
    /\ version = <<>>
    /\ env = <<>>
    /\ cmake_args = <<>>
    /\ log = <<>>
    /\ prev_args = <<>>

NextVersion ==
    \/ ExtractVersion
    \/ CallSetup

SpecVersion == InitVersion /\ [][NextVersion]_vars

\* setup.py is run once more on the same host with the same environment,
\* once the first run has its argument list: environ and host keep what they
\* answered, the globals of the module start afresh.
Rerun ==
    /\ pc = "configure"
    /\ prev_args = <<>>
    /\ prev_args' = <<cmake_args>>
    /\ pc' = "start"
    /\ error' = ""
    /\ PLATFORM' = None
    /\ python_arch' = <<>>
    /\ CMAKE_PRESET' = None
    /\ MSVC_PLAT_SPEC' = None
    /\ NO_CMAKE_BUILD' = FALSE
    /\ BUILD_RELEASE_WHEEL' = FALSE
    /\ version' = <<>>
    /\ env' = <<>>
    /\ cmake_args' = <<>>
    /\ log' = <<>>
    /\ fs0' = [build_dir |-> build_dir, extdir |-> extdir]
    /\ UNCHANGED << sys_platform, environ, host, header, build_dir, extdir >>

InitTwice ==
    /\ Init
    /\ build_dir.exists
    /\ extdir = {"old.txt"}

NextTwice ==
    \/ DetectPlatform
    \/ SelectPresetWindows
    \/ SelectPresetUnix
    \/ SelectPresetAndroid
    \/ ReadFlags
    \/ ExtractVersion
    \/ CallSetup
    \/ PrepareAndWipe
    \/ ComposeArgs
    \/ ComposeArgsAndroid
    \/ PathMappingNoWsl
    \/ PathMappingNoTool
    \/ PathMappingQuery
    \/ AppendOptional
    \/ Rerun

SpecTwice == InitTwice /\ [][NextTwice]_vars

\* ------------------------------------------------------------------ properties

PhaseNames == <<"configure", "build", "install">>
IsPhase(e) == e.op \in {"configure", "build", "install"}
Phases == SelectSeq(log, IsPhase)
Started(op) == \E i \in 1..Len(log) : log[i].op = op
IsProcess(e) == e.op \in {"wslpath", "configure", "build", "install"}

\* C1: the phases started so far are the first ones of configure, build,
\* install, in that order and each once; every phase but the last started
\* has exited with 0; after an exit code other than 0 the run is over as
\* failed, with nothing started after that phase and no file removed; a file
\* is removed only after the three phases; and a run that ends well with the
\* build enabled has run the three phases, each with exit code 0.
PhasesInOrder ==
    /\ Len(Phases) <= 3
    /\ \A i \in 1..Len(Phases) : Phases[i].op = PhaseNames[i]
    /\ \A i \in 1..(Len(Phases) - 1) : Phases[i].rc = 0
    /\ \A i \in 1..Len(log) :
         IsPhase(log[i]) /\ log[i].rc # 0
           => /\ i = Len(log)
              /\ pc = "failed"
              /\ error = "CalledProcessError"
    /\ Started("remove") => Len(Phases) = 3 /\ Phases[3].rc = 0
    /\ pc = "build" => Len(Phases) = 1 /\ Phases[1].rc = 0
    /\ pc = "install" => Len(Phases) = 2 /\ Phases[2].rc = 0
    /\ pc \in {"post", "done"} /\ ~NO_CMAKE_BUILD
         => Len(Phases) = 3 /\ Phases[3].rc = 0
    /\ pc = "done" /\ NO_CMAKE_BUILD => log = <<>>

\* C1, its case: the build phase has exited with 1 after a configure phase
\* that exited with 0, in a directory that held a denylisted file.
BuildPhaseFailed ==
    /\ pc = "failed"
    /\ Len(Phases) = 2
    /\ Phases[2].rc = 1
    /\ "slang-rhi.lib" \in extdir

IsConfigError ==
    /\ pc = "failed"
    /\ error \in {"Unsupported platform", "Unsupported ANDROID_ABI",
                  "AssertionError", "IndexError"}

NoProcessStarted == \A i \in 1..Len(log) : ~IsProcess(log[i])

\* C2, as stated: when a configuration error is raised no subprocess has
\* been started, and build/pip and the install directory are as they were
\* before the run.
ConfigErrorLeavesNoTrace ==
    IsConfigError
      => /\ NoProcessStarted
         /\ build_dir = fs0.build_dir
         /\ extdir = fs0.extdir

\* C2, amended: when a configuration error is raised no subprocess has been
\* started and the install directory is as it was before the run; build/pip
\* is as it was when the error is that of the platform or of ANDROID_ABI,
\* and does not exist (it has been wiped if it existed) when the error is
\* that of CMAKE_TOOLCHAIN_FILE or of the python include directory or
\* library.
ConfigErrorCreatesNothing ==
    IsConfigError
      => /\ NoProcessStarted
         /\ extdir = fs0.extdir
         /\ error \in {"Unsupported platform", "Unsupported ANDROID_ABI"}
              => build_dir = fs0.build_dir /\ log = <<>>
         /\ error \in {"AssertionError", "IndexError"}
              => /\ ~build_dir.exists
                 /\ Started("rmtree") <=> fs0.build_dir.exists

\* C2, its case: no libpython3.*.so is found, after a wipe of a build/pip
\* that held a file.
LibraryMissingAfterWipe ==
    /\ IsConfigError
    /\ error = "IndexError"
    /\ "include" \in DOMAIN host /\ host["include"] # {}
    /\ fs0.build_dir.files # {}

\* C3: build/pip does not exist when the configure phase is about to start
\* and did not exist when it started; it has been deleted before that if it
\* existed before the run; and nothing is deleted from it once a phase has
\* started.
CleanBeforeConfigure ==
    /\ pc = "configure" => ~build_dir.exists /\ build_dir.files = {}
    /\ \A i \in 1..Len(log) :
         log[i].op = "configure"
           => /\ ~log[i].existed
              /\ fs0.build_dir.exists
                   => \E j \in 1..(i - 1) : log[j].op = "rmtree"
    /\ \A i \in 1..Len(log) : \A j \in 1..Len(log) :
         IsPhase(log[i]) /\ i < j => log[j].op # "rmtree"
    /\ Started("configure") => "stale.txt" \notin build_dir.files

\* C3, its case: the configure phase has started in a run that found
\* build/pip with a file of an earlier run in it.
ConfiguredAfterStaleDir ==
    /\ Started("configure")
    /\ "stale.txt" \in fs0.build_dir.files

InstallEntries == SelectSeq(log, LAMBDA e : e.op = "install")

\* C9: after a run that ended well, no denylisted file is in the install
\* directory, and the directory holds exactly the other files the install
\* phase left in it.
DenylistRemoved ==
    pc = "done" /\ ~NO_CMAKE_BUILD
      => /\ Len(InstallEntries) = 1
         /\ extdir \cap Denylist = {}
         /\ extdir = InstallEntries[1].files \ {"slang-rhi.lib"}
         /\ fs0.extdir \ {"slang-rhi.lib"} \subseteq extdir

\* C9, its case: a run has ended well although the install directory held
\* no denylisted file after the install phase.
DoneWithoutDenylisted ==
    /\ pc = "done"
    /\ Len(InstallEntries) = 1
    /\ "slang-rhi.lib" \notin InstallEntries[1].files
    /\ "old.txt" \in extdir

\* The argument list is complete: the configure phase is about to start or
\* has started.
ArgsReady == pc = "configure" \/ Started("configure")

\* The positions at which a run of characters other than the space starts.
RunStarts(str) ==
    {i \in 1..Len(str) : str[i] # " " /\ (i = 1 \/ str[i - 1] = " ")}

\* The k-th such run.
Run(str, k) ==
    LET p == CHOOSE i \in RunStarts(str) :
                 Cardinality({j \in RunStarts(str) : j < i}) = k - 1
        e == CHOOSE j \in p..Len(str) :
                 /\ \A i \in p..j : str[i] # " "
                 /\ j = Len(str) \/ str[j + 1] = " "
    IN  SubSeq(str, p, e)

\* The number of arguments that CMAKE_ARGS stands for.
UserCount ==
    IF "CMAKE_ARGS" \in DOMAIN environ /\ IsSet(environ["CMAKE_ARGS"])
      THEN Cardinality(RunStarts(environ["CMAKE_ARGS"][1]))
      ELSE 0

BuiltinCount == Len(cmake_args) - UserCount

HasPrefixMap ==
    \E i \in 1..Len(cmake_args) :
      cmake_args[i].k \in {"-DCMAKE_C_FLAGS=-fdebug-prefix-map=",
                           "-DCMAKE_CXX_FLAGS=-fdebug-prefix-map="}

PathMapDone == pc = "extra" \/ ArgsReady

WslMarker == "marker" \in DOMAIN host /\ host["marker"]
WslpathFound == "which" \in DOMAIN host /\ host["which"]

NotUtf8(out) == \E i \in 1..Len(out) : out[i] = "#"
Blank(out) == \A i \in 1..Len(out) : out[i] \in {" ", "\n"}
Trimmed(out) == SelectSeq(out, LAMBDA c : c \notin {" ", "\n"})

\* C5, as stated: without the marker no prefix-map flag is added; with the
\* marker and a failed query (no wslpath, an exit code other than 0, output
\* that is no UTF-8 or is blank) none is added either; and the run is not
\* ended by the path mapping.
NoPrefixMapOnAnyFailure ==
    /\ pc = "failed" /\ "marker" \in DOMAIN host => Started("configure")
    /\ PathMapDone
         => /\ ~WslMarker => ~HasPrefixMap
            /\ WslMarker /\ ~WslpathFound => ~HasPrefixMap
            /\ WslMarker /\ WslpathFound /\ host["wslpath"].rc # 0 => ~HasPrefixMap
            /\ WslMarker /\ WslpathFound /\ NotUtf8(host["wslpath"].out) => ~HasPrefixMap
            /\ WslMarker /\ WslpathFound /\ Blank(host["wslpath"].out) => ~HasPrefixMap

\* C5, amended: without the marker no prefix-map flag is added; with the
\* marker none is added when there is no wslpath, when it exits with a code
\* other than 0, when its output is no UTF-8 or is the source path; any
\* other output, blank or not, is taken as the host path and the two flags
\* are added with it; and the run is not ended by the path mapping.
PrefixMapIffPathDiffers ==
    /\ pc = "failed" /\ "marker" \in DOMAIN host => Started("configure")
    /\ PathMapDone
         => /\ ~WslMarker => ~HasPrefixMap
            /\ WslMarker /\ ~WslpathFound => ~HasPrefixMap
            /\ WslMarker /\ WslpathFound /\ host["wslpath"].rc # 0 => ~HasPrefixMap
            /\ WslMarker /\ WslpathFound /\ NotUtf8(host["wslpath"].out) => ~HasPrefixMap
            /\ WslMarker /\ WslpathFound /\ host["wslpath"].rc = 0
                 /\ ~NotUtf8(host["wslpath"].out)
                 => LET win_src == Trimmed(host["wslpath"].out)
                    IN  IF win_src = <<"s">> THEN ~HasPrefixMap
                        ELSE \E i \in 1..(Len(cmake_args) - 1) :
                               /\ cmake_args[i] =
                                    Arg("-DCMAKE_C_FLAGS=-fdebug-prefix-map=",
                                        <<"s", "=">> \o win_src)
                               /\ cmake_args[i + 1] =
                                    Arg("-DCMAKE_CXX_FLAGS=-fdebug-prefix-map=",
                                        <<"s", "=">> \o win_src)

\* C5, its case: wslpath has exited with 0 after writing a blank line, and
\* the configure phase is about to start.
BlankOutputMapped ==
    /\ pc = "configure"
    /\ WslMarker /\ WslpathFound
    /\ host["wslpath"] = [rc |-> 0, out |-> <<"\n">>]
    /\ HasPrefixMap

\* C6, as stated: a second run with the same platform, environment and
\* host composes the argument list of the first.
SameInputsSameArgs ==
    pc = "configure" /\ prev_args # <<>> => cmake_args = prev_args[1]

ArmMachines ==
    { <<"A","R","M","6","4">>, <<"a","r","m","6","4">>, <<"A","A","r","c","h","6","4">> }

ExpectedPlatform ==
    CASE sys_platform = <<"w","i","n","3","2">> -> "windows"
      [] sys_platform = <<"l","i","n","u","x">> -> "linux"
      [] sys_platform = <<"d","a","r","w","i","n">> -> "macos"
      [] sys_platform = <<"a","n","d","r","o","i","d">> -> "android"
      [] OTHER -> "unsupported"

ExpectedPreset ==
    CASE ExpectedPlatform = "windows" ->
           IF host["machine"] \in ArmMachines
             THEN <<"windows-arm64-msvc", "x86_arm64">>
             ELSE <<"windows-msvc", "x64">>
      [] ExpectedPlatform = "linux" -> <<"linux-gcc", None>>
      [] ExpectedPlatform = "macos" -> <<"macos-arm64-clang", None>>
      [] ExpectedPlatform = "android" ->
           IF environ["ANDROID_ABI"] = <<"arm64-v8a">>
             THEN <<"android-arm64", None>>
             ELSE <<"android-x86_64", None>>

Untouched ==
    /\ log = <<>>
    /\ build_dir = fs0.build_dir
    /\ extdir = fs0.extdir

\* C7: once the platform is resolved, a supported platform has the preset
\* and the platform specifier of the table and no platform error; any other
\* sys.platform, and android with another ANDROID_ABI or none, has ended the
\* run with the error, no preset, no subprocess and no change to the two
\* directories.
PresetTable ==
    pc \notin {"start", "preset"}
      => IF ExpectedPlatform = "unsupported"
           THEN /\ pc = "failed" /\ error = "Unsupported platform"
                /\ CMAKE_PRESET = None
                /\ Untouched
         ELSE IF /\ ExpectedPlatform = "android"
                 /\ environ["ANDROID_ABI"] \notin {<<"arm64-v8a">>, <<"x86_64">>}
           THEN /\ pc = "failed" /\ error = "Unsupported ANDROID_ABI"
                /\ CMAKE_PRESET = None
                /\ Untouched
         ELSE /\ PLATFORM = ExpectedPlatform
              /\ error \notin {"Unsupported platform", "Unsupported ANDROID_ABI"}
              /\ <<CMAKE_PRESET, MSVC_PLAT_SPEC>> = ExpectedPreset

\* C7, its case: windows on a machine that calls itself AArch64.
WindowsArmResolved ==
    /\ pc = "flags"
    /\ host["machine"] = <<"A","A","r","c","h","6","4">>
    /\ CMAKE_PRESET = "windows-arm64-msvc"

CountKey(key) ==
    Cardinality({i \in 1..BuiltinCount : cmake_args[i].k = key})

AndroidKeys ==
    { "-DPython_INCLUDE_DIR=", "-DPython_LIBRARY=", "-DSGL_LOCAL_SLANG=ON",
      "-DSGL_LOCAL_SLANG_DIR=", "-DSGL_LOCAL_SLANG_BUILD_DIR=build-android-" }

\* C8: among the built-in arguments -DPython_ROOT_DIR occurs once when the
\* platform is not android, as the element of index 5 counted from 0, right
\* after -DCMAKE_DEFAULT_BUILD_TYPE, and never on android; each android key
\* occurs once on android and never elsewhere.
PythonRootOrAndroidKeys ==
    ArgsReady
      => /\ CountKey("-DPython_ROOT_DIR:PATH=") = (IF PLATFORM = "android" THEN 0 ELSE 1)
         /\ PLATFORM # "android"
              => /\ cmake_args[5 + 1] = Arg("-DPython_ROOT_DIR:PATH=", <<"sys.prefix">>)
                 /\ cmake_args[4 + 1].k = "-DCMAKE_DEFAULT_BUILD_TYPE="
         /\ cmake_args[5 + 1].k \in {"-DPython_ROOT_DIR:PATH=",
                                     "-DPython_FIND_REGISTRY:STRING=NEVER"}
         /\ \A key \in AndroidKeys :
              CountKey(key) = (IF PLATFORM = "android" THEN 1 ELSE 0)

\* C8, its case: a list for android with the release-wheel flags and a
\* user argument after the android keys.
AndroidListWithOptions ==
    /\ pc = "configure"
    /\ PLATFORM = "android"
    /\ BUILD_RELEASE_WHEEL
    /\ UserCount = 1
    /\ Len(cmake_args) = 21

\* The first position from p on that holds no space.
RECURSIVE SkipBlanks(_, _)
SkipBlanks(text, p) ==
    IF p <= Len(text) /\ text[p] = " " THEN SkipBlanks(text, p + 1) ELSE p

\* The positions of the lines of the header that are a directive for name:
\* spaces, the define of name, spaces, a value.
DirectiveLines(name) ==
    {p \in 1..Len(header) :
       /\ p = 1 \/ header[p - 1] = "\n"
       /\ LET d == SkipBlanks(header, p)
          IN  /\ d + 2 <= Len(header)
              /\ header[d] = name
              /\ header[d + 1] = " "
              /\ header[SkipBlanks(header, d + 1)] # "\n"}

\* The value of the directive on the line at p.
DirectiveValue(p) ==
    LET v == SkipBlanks(header, SkipBlanks(header, p) + 1)
        e == CHOOSE j \in v..Len(header) :
                 /\ \A i \in v..j : header[i] # "\n"
                 /\ j = Len(header) \/ header[j + 1] = "\n"
    IN  SubSeq(header, v, e)

HasOneOfEach ==
    \A name \in {"MAJOR", "MINOR", "PATCH"} : Cardinality(DirectiveLines(name)) = 1

TheValue(name) == DirectiveValue(CHOOSE p \in DirectiveLines(name) : TRUE)

\* C10, as stated: a header with one directive for each of MAJOR, MINOR and
\* PATCH among other lines yields major.minor.patch; a header that lacks one
\* of them ends the run with an error before setup is called.
VersionFromDirectives ==
    pc # "version"
      => IF HasOneOfEach
           THEN /\ pc # "failed"
                /\ version = TheValue("MAJOR") \o <<".">> \o TheValue("MINOR")
                               \o <<".">> \o TheValue("PATCH")
           ELSE (\E name \in {"MAJOR", "MINOR", "PATCH"} : DirectiveLines(name) = {})
                  => pc = "failed" /\ error = "KeyError" /\ version = <<>>

====
